---- MODULE Spec2Model ----
(***************************************************************************)
(* Model of spacy_llm/backends/rest/backend.py: class Backend, a REST      *)
(* client that posts a batch of prompts to a completion endpoint, retries  *)
(* on ConnectionError and maps the JSON response to one string per prompt. *)
(*                                                                         *)
(* Python dicts are functions whose domain is the set of keys; lists are   *)
(* sequences.  The dict the caller passes as `config` is ONE heap object:  *)
(* __init__ stores a reference to it (self._config = config), so the       *)
(* variable `config` below is at once the caller's mapping and the         *)
(* _config of every Backend built from it.                                 *)
(***************************************************************************)
EXTENDS Integers, Sequences, FiniteSets, TLC

(* ------------------------------ bounds --------------------------------- *)
MaxTries   == 2      \* max_tries ranges over 0..MaxTries
MaxPrompts == 2      \* longest prompt batch
MaxChoices == 2      \* longest choices array of a response
NumClients == 2      \* Backend objects the caller constructs
NumCalls   == 2      \* call frames (overlapping invocations)

(* --------------------------- class constants --------------------------- *)
SUPPORTED_APIS == {"OpenAI"}
DEFAULT_URLS == [OpenAI |-> "https://api.openai.com/v1/completions"]

(* ------------------------------ inputs --------------------------------- *)
Apis      == {"OpenAI", "Cohere"}
Timeouts  == {5, 30}
Urls      == {"http://proxy"}
Models    == {"ada", "davinci"}
ApiKeys   == {"sk-1"}
NoKey     == "<unset>"            \* the environment variable is absent
ConfigKeys == {"url", "prompt", "model"}
OtherExceptions == {"Timeout", "JSONDecodeError"}

SeqsUpTo(S, n) == UNION {[1..k -> S] : k \in 0..n}
\* prompt batches: ["P1"], ["P1", "P2"], ... and the empty batch
PromptBatches == {[i \in 1..n |-> "P" \o ToString(i)] : n \in 0..MaxPrompts}

EmptyDict == [k \in {} |-> ""]

\* value a caller stores under key k of the parameter mapping
ConfigValues(k) ==
  IF k = "url" THEN Urls
  ELSE IF k = "prompt" THEN {<<"X">>}
  ELSE Models

Configs ==
  {[k \in D |-> IF k = "url" THEN u ELSE IF k = "prompt" THEN <<"X">> ELSE m] :
     D \in SUBSET ConfigKeys, u \in Urls, m \in Models}

\* entries of a response's choices array
Choices == {[text |-> "Hi"], [text |-> "Earth", index |-> 1], [index |-> 0]}
Errors  == {[code |-> 500]}
Responses ==
  {EmptyDict}
    \cup {[error |-> e] : e \in Errors}
    \cup {[choices |-> s] : s \in SeqsUpTo(Choices, MaxChoices)}
    \cup {[error |-> e, choices |-> s] :
            e \in Errors, s \in SeqsUpTo(Choices, MaxChoices)}

(* --------------------- serialisation of dict values -------------------- *)
\* srsly.json_dumps writes compact JSON with double quotes; str() of a dict
\* (the f-string of the ValueError) writes Python's repr with single quotes
\* and a space after ':' and ','.  Keys are written in the order
\* error, choices and text, index.
JsonStyle == [q |-> "\"", colon |-> ":", comma |-> ","]
ReprStyle == [q |-> "'", colon |-> ": ", comma |-> ", "]

FmtKey(st, k) == st.q \o k \o st.q \o st.colon

FmtChoice(st, e) ==
  "{" \o (IF "text" \in DOMAIN e
            THEN FmtKey(st, "text") \o st.q \o e.text \o st.q ELSE "")
      \o (IF "text" \in DOMAIN e /\ "index" \in DOMAIN e THEN st.comma ELSE "")
      \o (IF "index" \in DOMAIN e
            THEN FmtKey(st, "index") \o ToString(e.index) ELSE "")
      \o "}"

RECURSIVE FmtChoiceList(_, _)
FmtChoiceList(st, s) ==
  IF Len(s) = 0 THEN ""
  ELSE FmtChoice(st, Head(s))
         \o (IF Len(s) > 1 THEN st.comma ELSE "")
         \o FmtChoiceList(st, Tail(s))

FmtError(st, err) == "{" \o FmtKey(st, "code") \o ToString(err.code) \o "}"

FmtResponses(st, r) ==
  "{" \o (IF "error" \in DOMAIN r
            THEN FmtKey(st, "error") \o FmtError(st, r.error) ELSE "")
      \o (IF "error" \in DOMAIN r /\ "choices" \in DOMAIN r
            THEN st.comma ELSE "")
      \o (IF "choices" \in DOMAIN r
            THEN FmtKey(st, "choices") \o "[" \o FmtChoiceList(st, r.choices) \o "]"
            ELSE "")
      \o "}"

json_dumps_responses(responses) == FmtResponses(JsonStyle, responses)
json_dumps_response(response)   == FmtChoice(JsonStyle, response)
str_responses(responses)        == FmtResponses(ReprStyle, responses)

(* ------------------------------- state --------------------------------- *)
VARIABLES
  config,    \* the caller's parameter mapping = self._config of every Backend
  env,       \* value of the environment variable OPENAI_API_KEY, or NoKey
  backends,  \* Backend objects: client id -> fields set by __init__
  calls      \* frames of _call_openai: call id -> locals

vars == <<config, env, backends, calls>>

ClientIds == 1..NumClients
CallIds   == 1..NumCalls

NoExc == [type |-> "None", msg |-> ""]

NoBackend ==
  [state |-> "none", api |-> "", strict |-> FALSE, max_tries |-> 0,
   timeout |-> 0, url |-> "", raised |-> NoExc]

IdleFrame ==
  [pc |-> "idle", self |-> 0,
   headers |-> [ContentType |-> "", Authorization |-> ""],
   prompts |-> <<>>, json_data |-> EmptyDict, request_tries |-> 0,
   responses |-> EmptyDict, api_responses |-> <<>>,
   it |-> 0, sent |-> <<>>, attempts |-> <<>>, steps |-> {},
   raised |-> NoExc, returned |-> FALSE, result |-> <<>>]

Init ==
  /\ config \in Configs
  /\ env \in ApiKeys \cup {NoKey}
  /\ backends = [c \in ClientIds |-> NoBackend]
  /\ calls = [k \in CallIds |-> IdleFrame]


(* ----------------------------- dict helpers ---------------------------- *)
\* {**a, **b}: keys of b override keys of a
DictMerge(a, b) ==
  [x \in DOMAIN a \cup DOMAIN b |-> IF x \in DOMAIN b THEN b[x] ELSE a[x]]

\* d after d.pop(k)
DictPop(d, k) == [x \in DOMAIN d \ {k} |-> d[x]]

\* d after d[k] = v
DictSet(d, k, v) == [x \in DOMAIN d \cup {k} |-> IF x = k THEN v ELSE d[x]]

Min(a, b) == IF a < b THEN a ELSE b

(* ------------------------------ __init__ ------------------------------- *)
\* line 33: api in Backend._SUPPORTED_APIS
Supported(api) == api \in SUPPORTED_APIS

UnsupportedError(api) ==
  [type |-> "ValueError",
   msg  |-> api \o " is not one of the supported APIs (('OpenAI',))."]

\* lines 43-47: the url the new object gets, read from the mapping cfg
ResolveUrl(cfg, api) ==
  IF "url" \in DOMAIN cfg THEN cfg["url"] ELSE DEFAULT_URLS[api]

\* lines 43-47: the mapping after the constructor's pop
ConfigAfterInit(cfg) ==
  IF "url" \in DOMAIN cfg THEN DictPop(cfg, "url") ELSE cfg

Backend_init_PopsFirst(c, api, strict, max_tries, timeout) ==
  /\ backends[c].state = "none"
  /\ \A d \in ClientIds : d < c => backends[d].state # "none"
  /\ config' = ConfigAfterInit(config)
  /\ backends' = [backends EXCEPT ![c] =
       IF ~Supported(api)
         THEN [NoBackend EXCEPT !.state = "failed",
                                !.raised = UnsupportedError(api)]
         ELSE [state |-> "ok", api |-> api, strict |-> strict,
               max_tries |-> max_tries, timeout |-> timeout,
               url |-> ResolveUrl(config, api), raised |-> NoExc]]
  /\ UNCHANGED <<env, calls>>

\* Backend(api, config, strict, max_tries, timeout); objects are numbered in
\* the order the caller builds them.
Backend_init(c, api, strict, max_tries, timeout) ==
  /\ backends[c].state = "none"
  /\ \A d \in ClientIds : d < c => backends[d].state # "none"
  /\ IF ~Supported(api)
       THEN /\ backends' = [backends EXCEPT ![c] =
                 [NoBackend EXCEPT !.state = "failed",
                                   !.raised = UnsupportedError(api)]]
            /\ UNCHANGED config
       ELSE /\ backends' = [backends EXCEPT ![c] =
                 [state |-> "ok", api |-> api, strict |-> strict,
                  max_tries |-> max_tries, timeout |-> timeout,
                  url |-> ResolveUrl(config, api), raised |-> NoExc]]
            /\ config' = ConfigAfterInit(config)
  /\ UNCHANGED <<env, calls>>

(* ----------------------- the caller's environment ---------------------- *)
\* the caller writes an entry of the dict it passed to the constructor
CallerSet(k, v) ==
  /\ v \in ConfigValues(k)
  /\ IF k \in DOMAIN config THEN config[k] # v ELSE TRUE
  /\ config' = DictSet(config, k, v)
  /\ UNCHANGED <<env, backends, calls>>

\* the caller deletes an entry of the dict it passed to the constructor
CallerDel(k) ==
  /\ k \in DOMAIN config
  /\ config' = DictPop(config, k)
  /\ UNCHANGED <<env, backends, calls>>

\* the process environment changes OPENAI_API_KEY (NoKey: unsets it)
SetEnv(v) ==
  /\ v # env
  /\ env' = v
  /\ UNCHANGED <<config, backends, calls>>

(* ---------------------------- _call_openai ----------------------------- *)
getenv_NoDefault(e) == IF e = NoKey THEN "None" ELSE e

\* line 66: os.getenv("OPENAI_API_KEY", "")
getenv(e) == IF e = NoKey THEN "" ELSE e

\* lines 64-67
Headers(e) ==
  [ContentType |-> "application/json", Authorization |-> "Bearer " \o getenv(e)]

\* line 70: {"prompt": prompts, **self._config}
JsonData(prompts, cfg) == DictMerge([prompt |-> prompts], cfg)

AfterIteration_Forever(i, max_tries) == "query"

AfterIteration_OneMore(i, max_tries) ==
  IF i <= max_tries THEN "query" ELSE "process"

\* line 75: the position after an iteration of range(max_tries) that did not
\* break: another iteration, or the statement after the loop
AfterIteration(i, max_tries) == IF i < max_tries THEN "query" ELSE "process"

Exhausted_LastIndex(request_tries, max_tries) == request_tries = max_tries - 1

\* line 86
Exhausted(request_tries, max_tries) == request_tries = max_tries

\* lines 87-91
UnreachableError(timeout, max_tries) ==
  [type |-> "ConnectionError",
   msg  |-> "OpenAI API could not be reached within " \o ToString(timeout)
              \o " seconds in " \o ToString(max_tries)
              \o " attempts. Check your network connection and the availability"
              \o " of the OpenAI API."]

\* line 96
ApiError(responses) ==
  [type |-> "ValueError",
   msg  |-> "API call failed: " \o str_responses(responses) \o "."]

ErrorBatch_Single(responses, prompts) == <<json_dumps_responses(responses)>>

\* line 98: [srsly.json_dumps(responses)] * len(prompts)
ErrorBatch(responses, prompts) ==
  [i \in 1..Len(prompts) |-> json_dumps_responses(responses)]

ChoiceText_AlwaysDumps(response) == json_dumps_response(response)

\* lines 102-105: the output string of one choices entry
ChoiceText(response) ==
  IF "text" \in DOMAIN response
    THEN response.text
    ELSE json_dumps_response(response)

\* lines 101-105: zip stops at the shorter of its arguments
MapChoices(prompts, choices) ==
  [i \in 1..Min(Len(prompts), Len(choices)) |-> ChoiceText(choices[i])]

LengthsMatch_Unchecked(choices, prompts) == TRUE

LengthsMatch_AtLeast(choices, prompts) == Len(choices) >= Len(prompts)

\* line 99: the assertion holds
LengthsMatch(choices, prompts) == Len(choices) = Len(prompts)

Raise(f, e) == [f EXCEPT !.pc = "done", !.raised = e]
Return(f, v) == [f EXCEPT !.pc = "done", !.returned = TRUE, !.result = v]
Step(f, s) == [f EXCEPT !.steps = f.steps \cup {s}]

\* lines 99-107, for a response without an error key
ProcessChoices(f) ==
  IF "choices" \notin DOMAIN f.responses
    THEN Raise(f, [type |-> "KeyError", msg |-> "'choices'"])
  ELSE IF ~LengthsMatch(f.responses.choices, f.prompts)
    THEN Raise(Step(f, "len_check"), [type |-> "AssertionError", msg |-> ""])
  ELSE LET out == MapChoices(f.prompts, f.responses.choices)
       IN Return([Step(Step(f, "len_check"), "map") EXCEPT !.api_responses = out],
                 out)

ProcessError_IgnoresStrict(f, b) == Return(f, ErrorBatch(f.responses, f.prompts))

\* lines 94-98, for a response with an error key
ProcessError(f, b) ==
  IF b.strict
    THEN Raise(f, ApiError(f.responses))
    ELSE Return(f, ErrorBatch(f.responses, f.prompts))

Processed_ChoicesFirst(f, b) ==
  IF Exhausted(f.request_tries, b.max_tries)
    THEN Raise(f, UnreachableError(b.timeout, b.max_tries))
  ELSE IF "choices" \in DOMAIN f.responses
    THEN ProcessChoices(Step(f, "error_check"))
  ELSE IF "error" \in DOMAIN f.responses
    THEN ProcessError(Step(f, "error_check"), b)
  ELSE ProcessChoices(Step(f, "error_check"))

\* lines 86-107: the statements after the loop
Processed(f, b) ==
  IF Exhausted(f.request_tries, b.max_tries)
    THEN Raise(f, UnreachableError(b.timeout, b.max_tries))
  ELSE IF "error" \in DOMAIN f.responses
    THEN ProcessError(Step(f, "error_check"), b)
  ELSE ProcessChoices(Step(f, "error_check"))

\* the call runs on from the loop without blocking: at "process" it executes
\* lines 86-107, at "query" it is about to send the next request
Continue(f, b) == IF f.pc = "process" THEN Processed(f, b) ELSE f

call_openai_StoresPrompts(k, c, prompts) ==
  /\ calls[k].pc = "idle"
  /\ backends[c].state = "ok"
  /\ config' = DictSet(config, "prompt", prompts)
  /\ calls' = [calls EXCEPT ![k] =
       Continue([IdleFrame EXCEPT
                   !.pc = AfterIteration(0, backends[c].max_tries),
                   !.self = c,
                   !.headers = Headers(env),
                   !.prompts = prompts,
                   !.json_data = DictSet(config, "prompt", prompts)],
                backends[c])]
  /\ UNCHANGED <<env, backends>>

\* lines 54, 64-75: the call up to its first request (with max_tries = 0,
\* to its end)
call_openai(k, c, prompts) ==
  /\ calls[k].pc = "idle"
  /\ backends[c].state = "ok"
  /\ calls' = [calls EXCEPT ![k] =
       Continue([IdleFrame EXCEPT
                   !.pc = AfterIteration(0, backends[c].max_tries),
                   !.self = c,
                   !.headers = Headers(env),
                   !.prompts = prompts,
                   !.json_data = JsonData(prompts, config)], backends[c])]
  /\ UNCHANGED <<config, env, backends>>

\* lines 77-82: the request of one attempt
Request(f, b) ==
  [url |-> b.url, headers |-> f.headers, json |-> f.json_data,
   timeout |-> b.timeout]

post_returns_SharedResponses(k, r) ==
  LET f == calls[k]
      b == backends[f.self]
  IN /\ f.pc = "query"
     /\ calls' = [j \in CallIds |->
          IF j = k
            THEN Continue([f EXCEPT !.request_tries = f.it,
                                    !.it = f.it + 1,
                                    !.sent = Append(f.sent, Request(f, b)),
                                    !.attempts = Append(f.attempts, "ok"),
                                    !.responses = r,
                                    !.pc = "process"], b)
            ELSE IF calls[j].pc = "query"
              THEN [calls[j] EXCEPT !.responses = r]
              ELSE calls[j]]
     /\ UNCHANGED <<config, env, backends>>

\* lines 75-83, 86-107: an attempt whose post(...).json() returns r; break,
\* and the call runs to its end
post_returns(k, r) ==
  LET f == calls[k]
      b == backends[f.self]
  IN /\ f.pc = "query"
     /\ calls' = [calls EXCEPT ![k] =
          Continue([f EXCEPT !.request_tries = f.it,
                             !.it = f.it + 1,
                             !.sent = Append(f.sent, Request(f, b)),
                             !.attempts = Append(f.attempts, "ok"),
                             !.responses = r,
                             !.pc = "process"], b)]
     /\ UNCHANGED <<config, env, backends>>

Caught_Any(exc) == TRUE

\* line 84: except ConnectionError
Caught(exc) == exc = "ConnectionError"

\* lines 75-85: an attempt whose post(...).json() raises exc; a caught one
\* leads to the next request or, after the last iteration, to lines 86-107
post_raises(k, exc) ==
  LET f == calls[k]
      b == backends[f.self]
      g == [f EXCEPT !.request_tries = f.it,
                     !.it = f.it + 1,
                     !.sent = Append(f.sent, Request(f, b)),
                     !.attempts = Append(f.attempts, exc)]
  IN /\ f.pc = "query"
     /\ calls' = [calls EXCEPT ![k] =
          IF Caught(exc)
            THEN Continue([g EXCEPT !.pc = AfterIteration(g.it, b.max_tries)], b)
            ELSE Raise(g, [type |-> exc, msg |-> ""])]
     /\ UNCHANGED <<config, env, backends>>

\* line 54: the caller has the outcome (the batch or the exception) of a
\* finished call, and the frame is gone
call_ends(k) ==
  /\ calls[k].pc = "done"
  /\ calls' = [calls EXCEPT ![k] = IdleFrame]
  /\ UNCHANGED <<config, env, backends>>

(* --------------------------- specification ----------------------------- *)
\* Spec: a single-threaded caller.  It builds one Backend and invokes it one
\* call at a time; a call blocks it, so it rewrites its mapping and the
\* environment only while no call is running.
NoCallRunning == \A k \in CallIds : calls[k].pc = "idle"
FirstClient == {1}
FirstCall   == {1}
Exceptions  == {"ConnectionError"} \cup OtherExceptions

Next ==
  \/ \E c \in FirstClient, api \in Apis, strict \in BOOLEAN,
        max_tries \in 0..MaxTries, timeout \in Timeouts :
       Backend_init(c, api, strict, max_tries, timeout)
  \/ NoCallRunning /\ \E k \in ConfigKeys : \E v \in ConfigValues(k) : CallerSet(k, v)
  \/ NoCallRunning /\ \E k \in ConfigKeys : CallerDel(k)
  \/ NoCallRunning /\ \E v \in ApiKeys \cup {NoKey} : SetEnv(v)
  \/ \E k \in FirstCall, c \in FirstClient, prompts \in PromptBatches :
       call_openai(k, c, prompts)
  \/ \E k \in FirstCall, r \in Responses : post_returns(k, r)
  \/ \E k \in FirstCall, exc \in Exceptions : post_raises(k, exc)
  \/ \E k \in FirstCall : call_ends(k)

Spec == Init /\ [][Next]_vars

(* ------------------------- reading the frames -------------------------- *)
Started(k)  == calls[k].pc # "idle"
Done(k)     == calls[k].pc = "done"
Client(k)   == backends[calls[k].self]
Tries(k)    == Len(calls[k].attempts)
LastTry(k)  == calls[k].attempts[Tries(k)]
\* the call received a response (its last attempt returned)
Received(k) == Done(k) /\ Tries(k) > 0 /\ LastTry(k) = "ok"
AllFailed(k) ==
  /\ Tries(k) = Client(k).max_tries
  /\ \A i \in 1..Tries(k) : calls[k].attempts[i] = "ConnectionError"


(* =============================== claims ================================ *)

\* C1: in a call with max_tries >= 1 whose every attempt failed with
\* ConnectionError, the call ends by raising the ConnectionError of lines
\* 87-91, whose message names timeout and max_tries, and none of the
\* response-processing steps (error-key check, length check, mapping) ran.
C1_ExhaustionRaisesConnectionError ==
  \A k \in CallIds :
    (Done(k) /\ Client(k).max_tries >= 1 /\ AllFailed(k)) =>
      /\ calls[k].raised =
           UnreachableError(Client(k).timeout, Client(k).max_tries)
      /\ ~calls[k].returned
      /\ calls[k].steps = {}

\* C2: a call sends at most max_tries requests; every attempt but the first
\* directly follows an attempt of the same call that failed with
\* ConnectionError; an attempt that returned a response is the last one.
C2_BoundedRetries ==
  \A k \in CallIds :
    Started(k) =>
      /\ Len(calls[k].sent) = Tries(k)
      /\ Tries(k) <= Client(k).max_tries
      /\ \A i \in 2..Tries(k) : calls[k].attempts[i - 1] = "ConnectionError"
      /\ \A i \in 1..Tries(k) :
           calls[k].attempts[i] = "ok" => (i = Tries(k) /\ calls[k].pc = "done")

C2_Witness ==
  \E k \in CallIds :
    /\ Done(k)
    /\ Client(k).max_tries = 2
    /\ calls[k].attempts = <<"ConnectionError", "ok">>
    /\ Len(calls[k].sent) = 2

\* C3: an attempt that fails with an exception other than ConnectionError
\* ends the call at once with that exception: it is the last attempt even
\* when tries remain, and the call returns no batch.
C3_OtherExceptionPropagates ==
  \A k \in CallIds :
    \A i \in 1..Tries(k) :
      calls[k].attempts[i] \in OtherExceptions =>
        /\ i = Tries(k)
        /\ calls[k].pc = "done"
        /\ calls[k].raised.type = calls[k].attempts[i]
        /\ ~calls[k].returned
        /\ calls[k].result = <<>>
        /\ calls[k].steps = {}

C3_Witness ==
  \E k \in CallIds :
    /\ Done(k)
    /\ Client(k).max_tries = 2
    /\ calls[k].attempts = <<"Timeout">>
    /\ calls[k].raised.type = "Timeout"

\* C4: for a received response without an error key whose choices array is as
\* long as the prompt batch, the call returns a batch whose element i is the
\* text field of choices[i] if it has one and the JSON text of the whole
\* entry otherwise, in the order of the prompts.
C4_ChoicesMappedInOrder ==
  \A k \in CallIds :
    (/\ Received(k)
     /\ "error" \notin DOMAIN calls[k].responses
     /\ "choices" \in DOMAIN calls[k].responses
     /\ Len(calls[k].responses.choices) = Len(calls[k].prompts)) =>
      /\ calls[k].returned
      /\ calls[k].raised = NoExc
      /\ Len(calls[k].result) = Len(calls[k].prompts)
      /\ \A i \in 1..Len(calls[k].prompts) :
           LET entry == calls[k].responses.choices[i]
           IN /\ "text" \in DOMAIN entry => calls[k].result[i] = entry.text
              /\ "text" \notin DOMAIN entry =>
                   calls[k].result[i] = json_dumps_response(entry)
              /\ entry = [index |-> 0] => calls[k].result[i] = "{\"index\":0}"

C4_Witness ==
  \E k \in CallIds :
    /\ Received(k)
    /\ calls[k].prompts = <<"P1", "P2">>
    /\ calls[k].responses = [choices |-> <<[index |-> 0], [text |-> "Hi"]>>]
    /\ calls[k].result = <<"{\"index\":0}", "Hi">>

\* C5: with strict = true, a call whose received response has an error key
\* raises the ValueError whose message carries the whole response payload,
\* and returns no batch, whatever else the response contains.
C5_StrictErrorRaises ==
  \A k \in CallIds :
    (Received(k) /\ Client(k).strict /\ "error" \in DOMAIN calls[k].responses) =>
      /\ calls[k].raised.type = "ValueError"
      /\ calls[k].raised.msg =
           "API call failed: " \o str_responses(calls[k].responses) \o "."
      /\ calls[k].responses = [error |-> [code |-> 500]] =>
           calls[k].raised.msg = "API call failed: {'error': {'code': 500}}."
      /\ ~calls[k].returned
      /\ calls[k].result = <<>>

C5_Witness ==
  \E k \in CallIds :
    /\ Received(k)
    /\ Client(k).strict
    /\ calls[k].prompts = <<"P1">>
    /\ calls[k].responses =
         [error |-> [code |-> 500], choices |-> <<[text |-> "Hi"]>>]
    /\ calls[k].raised.type = "ValueError"

\* C6: with strict = false, a call whose received response has an error key
\* returns without raising a batch of exactly len(prompts) elements, each
\* the JSON text of the whole response payload.
C6_LenientErrorBatch ==
  \A k \in CallIds :
    (Received(k) /\ ~Client(k).strict /\ "error" \in DOMAIN calls[k].responses) =>
      /\ calls[k].returned
      /\ calls[k].raised = NoExc
      /\ Len(calls[k].result) = Len(calls[k].prompts)
      /\ \A i \in 1..Len(calls[k].result) :
           /\ calls[k].result[i] = json_dumps_responses(calls[k].responses)
           /\ calls[k].responses = [error |-> [code |-> 500]] =>
                calls[k].result[i] = "{\"error\":{\"code\":500}}"

C6_Witness ==
  \E k \in CallIds :
    /\ Received(k)
    /\ ~Client(k).strict
    /\ calls[k].prompts = <<"P1", "P2">>
    /\ calls[k].responses = [error |-> [code |-> 500]]
    /\ calls[k].result =
         <<"{\"error\":{\"code\":500}}", "{\"error\":{\"code\":500}}">>

\* C7: every call that returns a batch, on whatever path, returns one of
\* exactly len(prompts) elements.
C7_ReturnedLengthIsPromptCount ==
  \A k \in CallIds :
    (Done(k) /\ calls[k].returned) =>
      Len(calls[k].result) = Len(calls[k].prompts)

C7_Witness ==
  \E k \in CallIds :
    /\ Done(k)
    /\ calls[k].returned
    /\ calls[k].attempts = <<"ConnectionError", "ok">>
    /\ "map" \in calls[k].steps
    /\ Len(calls[k].prompts) = 2
    /\ Len(calls[k].result) = 2


\* C8: the body of every request a call sends has key prompt set to the
\* call's input prompts (also when the configured mapping has a key named
\* prompt) and carries every other configured parameter at its configured
\* value.
C8_BodyCarriesPrompts ==
  [][\A k \in CallIds :
       /\ \A i \in 1..Len(calls'[k].sent) :
            /\ calls'[k].sent[i].json = calls'[k].json_data
            /\ calls'[k].sent[i].json["prompt"] = calls'[k].prompts
       /\ (calls[k].pc = "idle" /\ calls'[k].pc # "idle") =>
            \A x \in DOMAIN config \ {"prompt"} :
              /\ x \in DOMAIN calls'[k].json_data
              /\ calls'[k].json_data[x] = config[x]]_vars

\* C9: a construction with an API name outside the supported set raises the
\* ValueError of lines 34-36 and leaves the parameter mapping, the frames and
\* their sent requests as they were; only objects with a supported API exist,
\* and calls run on those only.
C9_UnsupportedApiRejected ==
  [][/\ \A c \in ClientIds :
          (backends[c].state = "none" /\ backends'[c].state # "none") =>
            IF backends'[c].state = "failed"
              THEN /\ backends'[c].raised.type = "ValueError"
                   /\ backends'[c].url = ""
                   /\ config' = config
                   /\ calls' = calls
              ELSE backends'[c].api \in SUPPORTED_APIS
     /\ \A k \in CallIds :
          calls'[k].pc # "idle" =>
            /\ backends'[calls'[k].self].state = "ok"
            /\ backends'[calls'[k].self].api \in SUPPORTED_APIS]_vars

C9_Witness ==
  \E c \in ClientIds :
    /\ backends[c].state = "failed"
    /\ backends[c].raised =
         [type |-> "ValueError",
          msg  |-> "Cohere is not one of the supported APIs (('OpenAI',))."]
    /\ "url" \in DOMAIN config
    /\ \A k \in CallIds : ~Started(k)

\* C10: a Backend built from a mapping with a url entry sends every request
\* of every later call to that value, and url is not among the parameters of
\* the request body; a Backend built from a mapping without one sends every
\* request to the default URL of its API.
C10_UrlResolvedAtConstruction ==
  [][/\ \A c \in ClientIds :
          (backends[c].state = "none" /\ backends'[c].state = "ok") =>
            backends'[c].url =
              IF "url" \in DOMAIN config
                THEN config["url"]
                ELSE DEFAULT_URLS[backends'[c].api]
     /\ \A c \in ClientIds :
          backends[c].state = "ok" => backends'[c].url = backends[c].url
     /\ \A k \in CallIds :
          \A i \in 1..Len(calls'[k].sent) :
            /\ calls'[k].sent[i].url = backends'[calls'[k].self].url
            /\ backends'[calls'[k].self].url \in Urls =>
                 "url" \notin DOMAIN calls'[k].sent[i].json]_vars


\* C11: no step of a call changes the configuration of a Backend: its url,
\* strict, max_tries and timeout and the parameter mapping it holds are after
\* the step what they were before it, whatever the call returns or raises.
C11_CallsKeepConfiguration ==
  [][(\E k \in CallIds : calls'[k] # calls[k]) =>
       /\ config' = config
       /\ \A c \in ClientIds :
            /\ backends'[c].url = backends[c].url
            /\ backends'[c].strict = backends[c].strict
            /\ backends'[c].max_tries = backends[c].max_tries
            /\ backends'[c].timeout = backends[c].timeout
            /\ backends'[c].api = backends[c].api]_vars

C11_Witness ==
  \E k \in CallIds :
    /\ Done(k)
    /\ calls[k].raised.type = "KeyError"
    /\ Len(calls[k].sent) = 2
    /\ DOMAIN config = {"model"}
    /\ Client(k).url = "http://proxy"


(* ------------------- one mapping, several Backends --------------------- *)
\* SpecShared: a single-threaded caller that holds one mapping with a url
\* entry, builds its Backends from it one after another, and may rewrite the
\* mapping once the first Backend exists.  Calls run one at a time, on any
\* of the Backends.
SharedConfig == [url |-> "http://proxy", model |-> "ada"]

InitShared ==
  /\ config = SharedConfig
  /\ env \in ApiKeys
  /\ backends = [c \in ClientIds |-> NoBackend]
  /\ calls = [k \in CallIds |-> IdleFrame]

FirstBuilt == backends[1].state # "none"

NextShared ==
  \/ \E c \in ClientIds, api \in SUPPORTED_APIS, strict \in {FALSE},
        max_tries \in {1}, timeout \in Timeouts :
       Backend_init(c, api, strict, max_tries, timeout)
  \/ /\ NoCallRunning /\ FirstBuilt
     /\ \E k \in ConfigKeys : \E v \in ConfigValues(k) : CallerSet(k, v)
  \/ NoCallRunning /\ FirstBuilt /\ \E k \in ConfigKeys : CallerDel(k)
  \/ \E k \in FirstCall, c \in ClientIds, prompts \in PromptBatches :
       call_openai(k, c, prompts)
  \/ \E k \in FirstCall, r \in Responses : post_returns(k, r)
  \/ \E k \in FirstCall, exc \in Exceptions : post_raises(k, exc)
  \/ \E k \in FirstCall : call_ends(k)

SpecShared == InitShared /\ [][NextShared]_vars

\* the parameters of a request body: its entries other than prompt
BodyParameters(json) == [x \in DOMAIN json \ {"prompt"} |-> json[x]]

\* C12: the parameters a Backend sends are those fixed at its construction:
\* the first Backend, built from {url, model: ada}, sends model = ada and
\* nothing else in every request body, whatever the caller does to the
\* mapping afterwards.
C12_ParametersFixedAtConstruction ==
  \A k \in CallIds :
    (Started(k) /\ calls[k].self = 1) =>
      \A i \in 1..Len(calls[k].sent) :
        BodyParameters(calls[k].sent[i].json) = [model |-> "ada"]


\* C13: the bearer token of every request of a call is the value the
\* environment variable has while the call runs (the caller cannot change it
\* during a call), whatever it was when the Backend was built; with the
\* variable absent the token is empty and the call still sends its requests.
C13_TokenReadAtCallTime ==
  \A k \in CallIds :
    Started(k) =>
      /\ \A i \in 1..Len(calls[k].sent) :
           /\ calls[k].sent[i].headers.Authorization =
                (IF env = NoKey THEN "Bearer " ELSE "Bearer " \o env)
           /\ calls[k].sent[i].headers.ContentType = "application/json"
      /\ (Done(k) /\ Client(k).max_tries >= 1) => Len(calls[k].sent) >= 1
      /\ calls[k].raised.type
           \in {"None", "KeyError", "AssertionError", "ValueError",
                "ConnectionError"} \cup OtherExceptions

C13_Witness ==
  \E k \in CallIds :
    /\ Done(k)
    /\ env = NoKey
    /\ Len(calls[k].sent) = 1
    /\ calls[k].sent[1].headers.Authorization = "Bearer "
    /\ calls[k].returned


\* C14: a received response without an error key whose choices array has
\* more or fewer entries than there are prompts makes the call fail on the
\* assertion of line 99: no batch is returned, truncated or padded, and no
\* entry is mapped.
C14_LengthMismatchFails ==
  \A k \in CallIds :
    (/\ Received(k)
     /\ "error" \notin DOMAIN calls[k].responses
     /\ "choices" \in DOMAIN calls[k].responses
     /\ Len(calls[k].responses.choices) # Len(calls[k].prompts)) =>
      /\ calls[k].raised = [type |-> "AssertionError", msg |-> ""]
      /\ ~calls[k].returned
      /\ calls[k].result = <<>>
      /\ calls[k].api_responses = <<>>
      /\ "map" \notin calls[k].steps

C14_Witness ==
  \E k \in CallIds :
    /\ Received(k)
    /\ calls[k].prompts = <<>>
    /\ calls[k].responses = [choices |-> <<[text |-> "Hi"]>>]
    /\ calls[k].raised.type = "AssertionError"


(* ----------------------------- termination ----------------------------- *)
\* every attempt of call k ends: requests.post returns, raises, or gives up
\* after the timeout it is passed (line 81)
AttemptEnds(k) ==
  \/ \E r \in Responses : post_returns(k, r)
  \/ \E exc \in Exceptions : post_raises(k, exc)

\* SpecFair: one Backend with any strict and max_tries, built from an empty
\* mapping, and its calls one at a time, where no attempt lasts forever.
\* The mapping and the environment decide no branch of a call and stay fixed.
InitFair == Init /\ config = EmptyDict /\ env = NoKey

NextFair ==
  \/ \E c \in FirstClient, api \in SUPPORTED_APIS, strict \in BOOLEAN,
        max_tries \in 0..MaxTries, timeout \in {5} :
       Backend_init(c, api, strict, max_tries, timeout)
  \/ \E k \in FirstCall, c \in FirstClient, prompts \in PromptBatches :
       call_openai(k, c, prompts)
  \/ \E k \in FirstCall, r \in Responses : post_returns(k, r)
  \/ \E k \in FirstCall, exc \in Exceptions : post_raises(k, exc)
  \/ \E k \in FirstCall : call_ends(k)

SpecFair ==
  InitFair /\ [][NextFair]_vars /\ \A k \in FirstCall : WF_vars(AttemptEnds(k))

\* C15: given that every attempt ends, every call ends, after at most
\* max_tries attempts, by returning a batch or by raising an error, for every
\* max_tries >= 0 and every sequence of attempt outcomes.
C15_CallsTerminate ==
  /\ [](\A k \in CallIds :
          /\ Started(k) => Tries(k) <= Client(k).max_tries
          /\ Done(k) => (calls[k].returned <=> calls[k].raised = NoExc))
  /\ \A k \in CallIds : Started(k) ~> Done(k)

C15_Witness ==
  \E k \in CallIds :
    /\ Done(k)
    /\ Client(k).max_tries = 2
    /\ calls[k].attempts = <<"ConnectionError", "ConnectionError">>
    /\ calls[k].raised.type = "KeyError"


(* --------------------------- overlapping calls ------------------------- *)
\* SpecOverlap: several threads call one Backend at the same time; the steps
\* of their calls interleave in every order.  The mapping and the
\* environment stay fixed.
OverlapBatches == {<<"P1">>, <<"P1", "P2">>}
OverlapResponses ==
  {[error |-> [code |-> 500]],
   [choices |-> <<[text |-> "Hi"]>>],
   [choices |-> <<[text |-> "Hi"], [index |-> 0]>>]}

InitOverlap == Init /\ config = [model |-> "ada"] /\ env \in ApiKeys

NextOverlap ==
  \/ \E c \in FirstClient, api \in SUPPORTED_APIS, strict \in BOOLEAN,
        max_tries \in {MaxTries}, timeout \in {5} :
       Backend_init(c, api, strict, max_tries, timeout)
  \/ \E k \in CallIds, c \in FirstClient, prompts \in OverlapBatches :
       call_openai(k, c, prompts)
  \/ \E k \in CallIds, r \in OverlapResponses : post_returns(k, r)
  \/ \E k \in CallIds, exc \in Exceptions : post_raises(k, exc)
  \/ \E k \in CallIds : call_ends(k)

SpecOverlap == InitOverlap /\ [][NextOverlap]_vars

\* The same call run alone: the frame of _call_openai on Backend b after
\* lines 64-75, and after an attempt that returns r or raises exc.
AloneBegun(c, b, prompts) ==
  Continue([IdleFrame EXCEPT
              !.pc = AfterIteration(0, b.max_tries),
              !.self = c,
              !.headers = Headers(env),
              !.prompts = prompts,
              !.json_data = JsonData(prompts, config)], b)

AloneAttempt(f, b, outcome, r) ==
  LET g == [f EXCEPT !.request_tries = f.it,
                     !.it = f.it + 1,
                     !.sent = Append(f.sent, Request(f, b)),
                     !.attempts = Append(f.attempts, outcome)]
  IN IF outcome = "ok"
       THEN Continue([g EXCEPT !.responses = r, !.pc = "process"], b)
     ELSE IF Caught(outcome)
       THEN Continue([g EXCEPT !.pc = AfterIteration(g.it, b.max_tries)], b)
     ELSE Raise(g, [type |-> outcome, msg |-> ""])

RECURSIVE AloneReplay(_, _, _, _)
AloneReplay(f, b, outcomes, r) ==
  IF outcomes = <<>> THEN f
  ELSE AloneReplay(AloneAttempt(f, b, Head(outcomes), r), b, Tail(outcomes), r)

\* the frame call k would have, had it run alone with its prompts and with
\* the outcomes its own attempts had
RunAlone(k) ==
  LET f == calls[k]
      b == backends[f.self]
  IN AloneReplay(AloneBegun(f.self, b, f.prompts), b, f.attempts, f.responses)

\* C16: in every interleaving of the steps of overlapping calls on one
\* Backend, each call's attempt count, requests and outcome are those of the
\* same call run alone with its prompts and its own attempts' outcomes.
C16_OverlappingCallsIndependent ==
  \A k \in CallIds :
    Started(k) =>
      /\ calls[k] = RunAlone(k)
      /\ \A i \in 1..Len(calls[k].sent) :
           calls[k].sent[i].json = [prompt |-> calls[k].prompts, model |-> "ada"]
      /\ calls[k].returned => Len(calls[k].result) = Len(calls[k].prompts)

C16_Witness ==
  /\ backends[1].max_tries >= 2
  /\ calls[1].pc = "query"
  /\ calls[1].attempts = <<"ConnectionError">>
  /\ calls[1].prompts = <<"P1">>
  /\ calls[2].pc = "done"
  /\ calls[2].prompts = <<"P1", "P2">>
  /\ calls[2].attempts = <<"ConnectionError", "ok">>
  /\ calls[2].result = <<"Hi", "{\"index\":0}">>


\* C17: the ConnectionError of lines 87-91 is raised only by a call none of
\* whose attempts returned: a call with an attempt that returned a response,
\* the last permitted one (number max_tries) included, does not raise it and
\* goes on to the error-key check of that response.
C17_NoConnectionErrorAfterSuccess ==
  \A k \in CallIds :
    Done(k) =>
      /\ calls[k].raised.type = "ConnectionError" =>
           \A i \in 1..Tries(k) : calls[k].attempts[i] # "ok"
      /\ Received(k) =>
           /\ calls[k].raised.type # "ConnectionError"
           /\ "error_check" \in calls[k].steps

C17_Witness ==
  \E k \in CallIds :
    /\ Done(k)
    /\ Client(k).max_tries = 2
    /\ Tries(k) = 2
    /\ calls[k].attempts[2] = "ok"
    /\ calls[k].request_tries = 1
    /\ calls[k].raised = NoExc
    /\ calls[k].result = <<"Hi">>

\* C18: a received response with both an error key and a choices array is
\* handled on the error path alone: the length check and the mapping do not
\* run, strict mode raises the ValueError with the whole payload, non-strict
\* mode returns the JSON text of the whole payload once per prompt, also when
\* the choices array is longer or shorter than the prompt batch.
C18_ErrorKeyTakesPrecedence ==
  \A k \in CallIds :
    (/\ Received(k)
     /\ "error" \in DOMAIN calls[k].responses
     /\ "choices" \in DOMAIN calls[k].responses) =>
      /\ calls[k].steps = {"error_check"}
      /\ calls[k].api_responses = <<>>
      /\ calls[k].raised.type # "AssertionError"
      /\ IF Client(k).strict
           THEN /\ ~calls[k].returned
                /\ calls[k].raised = ApiError(calls[k].responses)
           ELSE /\ calls[k].returned
                /\ calls[k].result =
                     [i \in 1..Len(calls[k].prompts) |->
                        json_dumps_responses(calls[k].responses)]
                /\ calls[k].responses.choices = <<[text |-> "Hi"]>> =>
                     \A i \in 1..Len(calls[k].result) :
                       calls[k].result[i] =
                         "{\"error\":{\"code\":500},\"choices\":[{\"text\":\"Hi\"}]}"

C18_Witness ==
  \E k \in CallIds :
    /\ Received(k)
    /\ ~Client(k).strict
    /\ calls[k].prompts = <<"P1", "P2">>
    /\ calls[k].responses =
         [error |-> [code |-> 500], choices |-> <<[text |-> "Hi"]>>]
    /\ calls[k].returned
    /\ Len(calls[k].result) = 2

\* C19: Backends built one after another from the same mapping have the same
\* target: the mapping had a url entry at the first construction, so every
\* Backend built from it holds that url and sends every request to it.
C19_SameTargetForEveryClient ==
  /\ \A c \in ClientIds :
       backends[c].state = "ok" => backends[c].url = "http://proxy"
  /\ \A k \in CallIds :
       \A i \in 1..Len(calls[k].sent) : calls[k].sent[i].url = "http://proxy"

====
